---- MODULE Spec2Model ----
(***************************************************************************)
(* SpaceX Launch Tracker (src/main.py): the fetch wrapper, the reference   *)
(* and launch-list loaders, the table/detail renderers, the interactive    *)
(* selection and search, and the menu loop.                                *)
(*                                                                         *)
(* Data representation                                                     *)
(*   - a Python str is a sequence of one-character strings;                *)
(*   - a JSON object is a record holding only the fields that are present  *)
(*     with a non-null value (dict.get answers None for a missing key and  *)
(*     for a null value alike);                                            *)
(*   - an Optional value is None == <<>> or Some(v) == <<v>>;              *)
(*   - a dict is a function from its keys to its values.                   *)
(* The Date and Success columns and the description/link lines of the      *)
(* renderers are not modelled: no property below reads them.               *)
(***************************************************************************)
EXTENDS Integers, Sequences, FiniteSets, TLC

VARIABLES
    pc,              \* control position of the running program
    op,              \* the function called last
    args,            \* its arguments and the upstream's answers to its requests
    ret,             \* its return value
    requests,        \* the paths it requested, in order
    console,         \* what it printed, in order
    past_cache,      \* main_menu's past_cache
    upcoming_cache,  \* main_menu's upcoming_cache
    past_loaded,     \* history: the (fetched, limit) load that filled past_cache
    launches         \* the list search_launches / choose_launch is working on

vars == <<pc, op, args, ret, requests, console, past_cache, upcoming_cache,
          past_loaded, launches>>

(***************************************************************************)
(* Bounds of the model.                                                    *)
(***************************************************************************)
MaxLen == 3      \* longest launch collection an endpoint answers with
MaxRef == 2      \* longest reference collection an endpoint answers with
MaxRows == 1     \* longest launch list handed directly to show_launch_table
MaxLimit == 4    \* largest limit handed directly to get_past_launches
BigLen == 21     \* length of the long past-launch collection of the menu runs

(***************************************************************************)
(* Program constants.                                                      *)
(***************************************************************************)
BrowseLimit == 20
SearchLimit == 50

(***************************************************************************)
(* Python values.                                                          *)
(***************************************************************************)
None == <<>>
Some(v) == <<v>>

EmptyStr == <<>>

\* d.get(k)
Get(d, k) == IF k \in DOMAIN d THEN Some(d[k]) ELSE None

\* truth value of an Optional str / Optional list
Truthy(o) == o # None /\ o[1] # <<>>

\* o or default
OrElse(o, default) == IF Truthy(o) THEN o[1] ELSE default

Min(a, b) == IF a < b THEN a ELSE b
Max(a, b) == IF a > b THEN a ELSE b

RECURSIVE Reverse(_)
Reverse(s) == IF s = <<>> THEN <<>> ELSE Append(Reverse(Tail(s)), Head(s))

\* s[:n]
SliceTo(s, n) ==
    IF n >= 0 THEN SubSeq(s, 1, Min(n, Len(s)))
    ELSE SubSeq(s, 1, Max(0, Len(s) + n))

\* code points of the characters timestamps are written with
Ord(c) ==
    CASE c = "-" -> 45
      [] c = "0" -> 48
      [] c = "1" -> 49
      [] c = "2" -> 50
      [] c = "9" -> 57
      [] c = ":" -> 58
      [] c = "T" -> 84
      [] c = "Z" -> 90

\* a <= b on str: lexicographic by code point, a proper prefix is smaller
RECURSIVE StrLeq(_, _)
StrLeq(a, b) ==
    IF a = <<>> THEN TRUE
    ELSE IF b = <<>> THEN FALSE
    ELSE IF Ord(Head(a)) < Ord(Head(b)) THEN TRUE
    ELSE IF Ord(Head(a)) > Ord(Head(b)) THEN FALSE
    ELSE StrLeq(Tail(a), Tail(b))

StrLt(a, b) == StrLeq(a, b) /\ a # b

\* sep.join(parts)
RECURSIVE Join(_, _)
Join(sep, parts) ==
    IF parts = <<>> THEN EmptyStr
    ELSE IF Len(parts) = 1 THEN parts[1]
    ELSE parts[1] \o sep \o Join(sep, Tail(parts))

\* dict: m[k] = v
MapPut(m, k, v) == [x \in DOMAIN m \cup {k} |-> IF x = k THEN v ELSE m[x]]

\* dict: m.get(k, default)
MapGet(m, k, default) == IF k \in DOMAIN m THEN m[k] ELSE default

EmptyMap == <<>>

(***************************************************************************)
(* String literals of the program.                                         *)
(***************************************************************************)
Unknown == <<"U", "n", "k", "n", "o", "w", "n">>
UnknownRocket == Unknown \o <<" ", "r", "o", "c", "k", "e", "t">>
UnknownPad == Unknown \o <<" ", "p", "a", "d">>
UnknownLaunchpad == Unknown \o <<" ", "l", "a", "u", "n", "c", "h", "p", "a", "d">>
NoName == <<"(", "n", "o", " ", "n", "a", "m", "e", ")">>

(***************************************************************************)
(* fetch_json.  outcome is what the upstream does with the one GET:        *)
(* status "ok" with a JSON body, "http_error" (a non-2xx status, with the  *)
(* error body), "timeout" or "connection_error".                           *)
(* The result carries the value returned, the requests sent and what was   *)
(* printed.                                                                *)
(***************************************************************************)
\* a variant that asks again after a failure
fetch_json_retry(path, outcome) ==
    IF outcome.status = "ok"
    THEN [value |-> Some(outcome.body), sent |-> <<path>>, printed |-> <<>>]
    ELSE [value   |-> None,
          sent    |-> <<path, path>>,
          printed |-> <<[kind |-> "error", path |-> path]>>]

fetch_json(path, outcome) ==
    IF outcome.status = "ok"
    THEN [value |-> Some(outcome.body), sent |-> <<path>>, printed |-> <<>>]
    ELSE [value   |-> None,
          sent    |-> <<path>>,
          printed |-> <<[kind |-> "error", path |-> path]>>]

(***************************************************************************)
(* load_rocket_map                                                         *)
(***************************************************************************)
RECURSIVE RocketEntries(_, _)
RocketEntries(rockets, mapping) ==
    IF rockets = <<>> THEN mapping
    ELSE LET r == Head(rockets)
             _id == Get(r, "id")
             name == OrElse(Get(r, "name"), UnknownRocket)
         IN  RocketEntries(Tail(rockets),
                           IF Truthy(_id) THEN MapPut(mapping, _id, name)
                           ELSE mapping)

load_rocket_map(outcome) ==
    LET f == fetch_json("/rockets", outcome)
        rockets == OrElse(f.value, <<>>)
    IN  [value   |-> RocketEntries(rockets, EmptyMap),
         sent    |-> f.sent,
         printed |-> f.printed]

(***************************************************************************)
(* load_launchpad_map                                                      *)
(***************************************************************************)
NonEmpty(part) == part # EmptyStr

\* a variant that joins locality and region without dropping the empty ones
PadDisplay_unfiltered(p) ==
    LET name == OrElse(Get(p, "name"), UnknownPad)
        locality == OrElse(Get(p, "locality"), EmptyStr)
        region == OrElse(Get(p, "region"), EmptyStr)
        loc == Join(<<",", " ">>, <<locality, region>>)
    IN  IF loc # EmptyStr THEN name \o <<" ", "(">> \o loc \o <<")">> ELSE name

PadDisplay(p) ==
    LET name == OrElse(Get(p, "name"), UnknownPad)
        locality == OrElse(Get(p, "locality"), EmptyStr)
        region == OrElse(Get(p, "region"), EmptyStr)
        loc == Join(<<",", " ">>, SelectSeq(<<locality, region>>, NonEmpty))
    IN  IF loc # EmptyStr THEN name \o <<" ", "(">> \o loc \o <<")">> ELSE name

RECURSIVE PadEntries(_, _)
PadEntries(pads, mapping) ==
    IF pads = <<>> THEN mapping
    ELSE LET p == Head(pads)
             _id == Get(p, "id")
         IN  PadEntries(Tail(pads), MapPut(mapping, _id, PadDisplay(p)))

load_launchpad_map(outcome) ==
    LET f == fetch_json("/launchpads", outcome)
        pads == OrElse(f.value, <<>>)
    IN  [value   |-> PadEntries(pads, EmptyMap),
         sent    |-> f.sent,
         printed |-> f.printed]

(***************************************************************************)
(* list.sort(key=lambda x: x.get("date_utc") or "").  The sort is stable:  *)
(* an element goes behind every element whose key is not greater.          *)
(***************************************************************************)
DateKey(x) == OrElse(Get(x, "date_utc"), EmptyStr)

RECURSIVE InsertByKey(_, _)
InsertByKey(x, sorted) ==
    IF sorted = <<>> THEN <<x>>
    ELSE IF StrLt(DateKey(x), DateKey(Head(sorted)))
         THEN <<x>> \o sorted
         ELSE <<Head(sorted)>> \o InsertByKey(x, Tail(sorted))

RECURSIVE SortFrom(_, _)
SortFrom(rest, sorted) ==
    IF rest = <<>> THEN sorted
    ELSE SortFrom(Tail(rest), InsertByKey(Head(rest), sorted))

\* a variant that puts an element in front of the elements of equal key
RECURSIVE InsertBeforeEqual(_, _)
InsertBeforeEqual(x, sorted) ==
    IF sorted = <<>> THEN <<x>>
    ELSE IF StrLeq(DateKey(x), DateKey(Head(sorted)))
         THEN <<x>> \o sorted
         ELSE <<Head(sorted)>> \o InsertBeforeEqual(x, Tail(sorted))

RECURSIVE SortFromUnstable(_, _)
SortFromUnstable(rest, sorted) ==
    IF rest = <<>> THEN sorted
    ELSE SortFromUnstable(Tail(rest), InsertBeforeEqual(Head(rest), sorted))

SortByDate_unstable(l) == SortFromUnstable(l, <<>>)

SortByDate(l) == SortFrom(l, <<>>)

\* a variant that sorts ascending and reverses, which reverses equal keys too
SortByDateReverse_reversed(l) == Reverse(SortByDate(l))

\* list.sort(key=..., reverse=True): descending, and still stable (the list is
\* reversed, sorted and reversed again)
SortByDateReverse(l) == Reverse(SortByDate(Reverse(l)))

(***************************************************************************)
(* get_upcoming_launches, get_past_launches                                *)
(***************************************************************************)
get_upcoming_launches(outcome) ==
    LET f == fetch_json("/launches/upcoming", outcome)
        ls == OrElse(f.value, <<>>)
    IN  [value |-> SortByDate(ls), sent |-> f.sent, printed |-> f.printed]

\* a variant that truncates before it sorts
get_past_launches_truncate_first(outcome, limit) ==
    LET f == fetch_json("/launches/past", outcome)
        ls == OrElse(f.value, <<>>)
    IN  [value   |-> SortByDateReverse(SliceTo(ls, limit)),
         sent    |-> f.sent,
         printed |-> f.printed]

get_past_launches(outcome, limit) ==
    LET f == fetch_json("/launches/past", outcome)
        ls == OrElse(f.value, <<>>)
    IN  [value   |-> SliceTo(SortByDateReverse(ls), limit),
         sent    |-> f.sent,
         printed |-> f.printed]

(***************************************************************************)
(* show_launch_table, show_launch_details                                  *)
(***************************************************************************)
TableRow(idx, launch, rocket_map, pad_map) ==
    [idx         |-> idx,
     name        |-> OrElse(Get(launch, "name"), NoName),
     rocket_name |-> MapGet(rocket_map, Get(launch, "rocket"), Unknown),
     pad_name    |-> MapGet(pad_map, Get(launch, "launchpad"), Unknown)]

show_launch_table(title, ls, rocketOutcome, padOutcome) ==
    IF ls = <<>>
    THEN [value   |-> None,
          sent    |-> <<>>,
          printed |-> <<[kind |-> "panel", title |-> title,
                         text |-> "No launches to display."]>>]
    ELSE LET rm == load_rocket_map(rocketOutcome)
             pm == load_launchpad_map(padOutcome)
             rows == [idx \in 1..Len(ls) |-> TableRow(idx, ls[idx], rm.value, pm.value)]
         IN  [value   |-> None,
              sent    |-> rm.sent \o pm.sent,
              printed |-> rm.printed \o pm.printed
                          \o <<[kind |-> "table", title |-> title, rows |-> rows]>>]

show_launch_details(launch, rocketOutcome, padOutcome) ==
    LET rm == load_rocket_map(rocketOutcome)
        pm == load_launchpad_map(padOutcome)
    IN  [value   |-> None,
         sent    |-> rm.sent \o pm.sent,
         printed |-> rm.printed \o pm.printed
                     \o <<[kind        |-> "details",
                           name        |-> OrElse(Get(launch, "name"), NoName),
                           rocket_name |-> MapGet(rm.value, Get(launch, "rocket"),
                                                  UnknownRocket),
                           pad_name    |-> MapGet(pm.value, Get(launch, "launchpad"),
                                                  UnknownLaunchpad)]>>]

(***************************************************************************)
(* str methods used on what the user types.                                *)
(***************************************************************************)
Whitespace == {" ", "\t"}

RECURSIVE LStrip(_)
LStrip(s) == IF s # <<>> /\ Head(s) \in Whitespace THEN LStrip(Tail(s)) ELSE s

\* s.strip()
Strip(s) == Reverse(LStrip(Reverse(LStrip(s))))

LowerChar(c) ==
    CASE c = "A" -> "a" [] c = "B" -> "b" [] c = "C" -> "c" [] c = "D" -> "d"
      [] c = "E" -> "e" [] c = "F" -> "f" [] c = "G" -> "g" [] c = "H" -> "h"
      [] c = "I" -> "i" [] c = "J" -> "j" [] c = "K" -> "k" [] c = "L" -> "l"
      [] c = "M" -> "m" [] c = "N" -> "n" [] c = "O" -> "o" [] c = "P" -> "p"
      [] c = "Q" -> "q" [] c = "R" -> "r" [] c = "S" -> "s" [] c = "T" -> "t"
      [] c = "U" -> "u" [] c = "V" -> "v" [] c = "W" -> "w" [] c = "X" -> "x"
      [] c = "Y" -> "y" [] c = "Z" -> "z"
      [] OTHER -> c

\* s.lower()
Lower(s) == [i \in DOMAIN s |-> LowerChar(s[i])]

\* needle in hay
Contains(hay, needle) ==
    \E i \in 0..(Len(hay) - Len(needle)) : SubSeq(hay, i + 1, i + Len(needle)) = needle

\* the characters int() reads as decimal digits
DecimalDigits == {"0", "1", "2", "3", "4", "5", "6", "7", "8", "9"}

\* characters str.isdigit() accepts and int() does not (superscript digits)
OtherDigits == {"¹", "²", "³"}

DigitValue(c) ==
    CASE c = "0" -> 0 [] c = "1" -> 1 [] c = "2" -> 2 [] c = "3" -> 3 [] c = "4" -> 4
      [] c = "5" -> 5 [] c = "6" -> 6 [] c = "7" -> 7 [] c = "8" -> 8 [] c = "9" -> 9

\* s.isdigit()
IsDigit(s) == s # <<>> /\ \A i \in DOMAIN s : s[i] \in DecimalDigits \cup OtherDigits

\* int(s) of an s that passed isdigit(): the number, or ValueError
IntParses(s) == \A i \in DOMAIN s : s[i] \in DecimalDigits

RECURSIVE IntOf(_)
IntOf(s) == IF s = <<>> THEN 0 ELSE 10 * IntOf(SubSeq(s, 1, Len(s) - 1)) + DigitValue(s[Len(s)])

(***************************************************************************)
(* choose_launch: what one answer to its prompt does.                      *)
(***************************************************************************)
choose_launch_prompt(ls, choice) ==
    IF Strip(choice) = EmptyStr
    THEN [next |-> "return", value |-> None, printed |-> <<>>]
    ELSE IF ~IsDigit(choice)
    THEN [next    |-> "prompt", value |-> None,
          printed |-> <<[kind |-> "message", text |-> "Please enter a valid number."]>>]
    ELSE IF ~IntParses(choice)
    THEN [next |-> "raise", value |-> None, printed |-> <<>>]
    ELSE LET idx == IntOf(choice)
         IN  IF 1 <= idx /\ idx <= Len(ls)
             THEN [next |-> "return", value |-> Some(ls[idx]), printed |-> <<>>]
             ELSE [next    |-> "prompt", value |-> None,
                   printed |-> <<[kind |-> "message",
                                  text |-> "Number must be between 1 and",
                                  len  |-> Len(ls)]>>]

(***************************************************************************)
(* search_launches: the filter applied to what was typed at its prompt.    *)
(***************************************************************************)
\* a variant that searches the displayed name, placeholder included
search_matches_placeholder(ls, typed) ==
    LET query == Strip(typed)
        query_lower == Lower(query)
        Matches(l) == Contains(Lower(OrElse(Get(l, "name"), NoName)), query_lower)
    IN  IF query = EmptyStr THEN [filtered |-> FALSE, query |-> query, matches |-> <<>>]
        ELSE [filtered |-> TRUE, query |-> query, matches |-> SelectSeq(ls, Matches)]

search_matches(ls, typed) ==
    LET query == Strip(typed)
        query_lower == Lower(query)
        Matches(l) == Contains(Lower(OrElse(Get(l, "name"), EmptyStr)), query_lower)
    IN  IF query = EmptyStr THEN [filtered |-> FALSE, query |-> query, matches |-> <<>>]
        ELSE [filtered |-> TRUE, query |-> query, matches |-> SelectSeq(ls, Matches)]

(***************************************************************************)
(* What the upstream may answer.                                           *)
(***************************************************************************)
R1 == <<"r", "1">>
R2 == <<"r", "2">>
R9 == <<"r", "9">>
P1 == <<"p", "1">>
P2 == <<"p", "2">>
P9 == <<"p", "9">>

RocketPool ==
    { [id |-> R1, name |-> <<"F", "9">>],
      [id |-> R1, name |-> <<"F", "H">>],
      [name |-> <<"S", "S">>],
      [id |-> EmptyStr, name |-> <<"E">>],
      [id |-> R2] }

PadPool ==
    { [id |-> P1, name |-> <<"K">>, locality |-> <<"C">>, region |-> <<"F">>],
      [id |-> P1, name |-> <<"V">>, region |-> <<"F">>],
      [name |-> <<"O">>, locality |-> <<"C">>],
      [id |-> P2, name |-> <<"B">>, locality |-> EmptyStr, region |-> EmptyStr],
      [id |-> P2] }

LaunchPool ==
    { [flight_number |-> 1, name |-> <<"A", "b">>, date_utc |-> <<"1">>,
       rocket |-> R1, launchpad |-> P1],
      [flight_number |-> 2, date_utc |-> <<"1">>],
      [flight_number |-> 3, name |-> <<"b", "a">>, rocket |-> R9, launchpad |-> P9],
      [flight_number |-> 4, name |-> <<"B">>, date_utc |-> <<"1", "2">>,
       rocket |-> R2, launchpad |-> P2],
      [flight_number |-> 5, name |-> EmptyStr, date_utc |-> EmptyStr, rocket |-> R1],
      [flight_number |-> 6, name |-> <<"n", "o">>, date_utc |-> <<"2">>,
       launchpad |-> P1] }

\* the lists of at most n distinct members of S
ListsOf(S, n) ==
    { s \in UNION { [1..k -> S] : k \in 0..n } :
        \A i, j \in DOMAIN s : i # j => s[i] # s[j] }

\* the outcomes of one GET of a collection drawn from S
Outcomes(S, n) ==
    { [status |-> "ok", body |-> b] : b \in ListsOf(S, n) }
    \cup { [status |-> "http_error", body |-> b] : b \in ListsOf(S, 1) \ {<<>>} }
    \cup { [status |-> "timeout"], [status |-> "connection_error"] }

RocketOutcomes == Outcomes(RocketPool, MaxRef)
PadOutcomes == Outcomes(PadPool, MaxRef)
LaunchOutcomes == Outcomes(LaunchPool, MaxLen)

\* the collection a loader works on after `fetch_json(path) or []`
Fetched(outcome) == IF outcome.status = "ok" THEN outcome.body ELSE <<>>

(***************************************************************************)
(* The functions called one at a time.                                     *)
(***************************************************************************)
MenuIdle ==
    /\ past_cache = <<>>
    /\ upcoming_cache = <<>>
    /\ past_loaded = None
    /\ launches = <<>>

Init ==
    /\ pc = "ready"
    /\ op = "none"
    /\ args = <<>>
    /\ ret = None
    /\ requests = <<>>
    /\ console = <<>>
    /\ MenuIdle

Returns(name, a, r) ==
    /\ pc' = "returned"
    /\ op' = name
    /\ args' = a
    /\ ret' = r.value
    /\ requests' = r.sent
    /\ console' = r.printed
    /\ UNCHANGED <<past_cache, upcoming_cache, past_loaded, launches>>

Paths == {"/rockets", "/launchpads", "/launches/upcoming", "/launches/past"}

CallFetchJson ==
    /\ pc = "ready"
    /\ \E path \in Paths, o \in RocketOutcomes :
         Returns("fetch_json", [path |-> path, outcome |-> o], fetch_json(path, o))

CallLoadRocketMap ==
    /\ pc = "ready"
    /\ \E o \in RocketOutcomes :
         Returns("load_rocket_map", [outcome |-> o], load_rocket_map(o))

CallLoadLaunchpadMap ==
    /\ pc = "ready"
    /\ \E o \in PadOutcomes :
         Returns("load_launchpad_map", [outcome |-> o], load_launchpad_map(o))

CallGetUpcomingLaunches ==
    /\ pc = "ready"
    /\ \E o \in LaunchOutcomes :
         Returns("get_upcoming_launches", [outcome |-> o], get_upcoming_launches(o))

CallGetPastLaunches ==
    /\ pc = "ready"
    /\ \E o \in LaunchOutcomes, limit \in -1..MaxLimit :
         Returns("get_past_launches", [outcome |-> o, limit |-> limit],
                 get_past_launches(o, limit))

CallShowLaunchTable ==
    /\ pc = "ready"
    /\ \E ls \in ListsOf(LaunchPool, MaxRows), ro \in RocketOutcomes, po \in PadOutcomes :
         Returns("show_launch_table", [launches |-> ls, rockets |-> ro, pads |-> po],
                 show_launch_table("Launches", ls, ro, po))

CallShowLaunchDetails ==
    /\ pc = "ready"
    /\ \E l \in LaunchPool, ro \in RocketOutcomes, po \in PadOutcomes :
         Returns("show_launch_details", [launch |-> l, rockets |-> ro, pads |-> po],
                 show_launch_details(l, ro, po))

\* the sorts of get_upcoming_launches and get_past_launches in a row, with a
\* reversal in between
CallSortRoundTrip ==
    /\ pc = "ready"
    /\ \E ls \in ListsOf(LaunchPool, MaxLen) :
         LET asc == SortByDate(ls)
             rev == Reverse(asc)
         IN  Returns("sort_round_trip", [launches |-> ls],
                     [value   |-> [asc |-> asc, rev |-> rev,
                                   desc |-> SortByDateReverse(rev)],
                      sent    |-> <<>>,
                      printed |-> <<>>])

Return ==
    /\ pc = "returned"
    /\ pc' = "ready"
    /\ op' = "none"
    /\ args' = <<>>
    /\ ret' = None
    /\ requests' = <<>>
    /\ console' = <<>>
    /\ UNCHANGED <<past_cache, upcoming_cache, past_loaded, launches>>

Next ==
    \/ CallFetchJson
    \/ CallLoadRocketMap
    \/ CallLoadLaunchpadMap
    \/ CallGetUpcomingLaunches
    \/ CallGetPastLaunches
    \/ CallShowLaunchTable
    \/ CallShowLaunchDetails
    \/ CallSortRoundTrip
    \/ Return

Spec == Init /\ [][Next]_vars

(***************************************************************************)
(* main_menu.  What the upstream answers and what the user types during a  *)
(* run of the menu.                                                        *)
(***************************************************************************)
Base3(i) ==
    LET d(n) == IF n = 0 THEN "0" ELSE IF n = 1 THEN "1" ELSE "2"
    IN  <<d((i \div 9) % 3), d((i \div 3) % 3), d(i % 3)>>

\* all of LaunchPool, by flight number
Catalogue ==
    LET byFlight(n) == CHOOSE l \in LaunchPool : l.flight_number = n
    IN  [n \in 1..Cardinality(LaunchPool) |-> byFlight(n)]

\* a collection longer than the browsing limit
BigList ==
    [i \in 1..BigLen |->
        IF i % 2 = 0
        THEN [flight_number |-> 100 + i, date_utc |-> Base3(i), rocket |-> R1]
        ELSE [flight_number |-> 100 + i, date_utc |-> Base3(i), rocket |-> R1,
              name |-> <<"A", "b">>]]

MenuPastOutcomes ==
    { [status |-> "ok", body |-> b] : b \in ListsOf(LaunchPool, 1) \cup {Catalogue, BigList} }
    \cup { [status |-> "timeout"] }

MenuUpcomingOutcomes ==
    { [status |-> "ok", body |-> b] : b \in {<<>>, Catalogue} }
    \cup { [status |-> "http_error", body |-> <<>>] }

MenuRocketOutcomes ==
    { [status |-> "ok", body |-> <<CHOOSE r \in RocketPool : Get(r, "id") = Some(R2)>>],
      [status |-> "connection_error"] }

MenuPadOutcomes ==
    { [status |-> "ok", body |-> <<CHOOSE p \in PadPool : Get(p, "name") = Some(<<"V">>)>>],
      [status |-> "timeout"] }

\* what the user may type at the selection prompt
Choices ==
    { <<>>, <<" ">>, <<"x">>, <<"0">>, <<"1">>, <<"2">>, <<"0", "2">>, <<"2", "1">>,
      <<"1", "x">>, <<"²">> }

\* what the user may type at the search prompt
Queries ==
    { <<>>, <<" ">>, <<"b">>, <<"A", "B">>, <<" ", "a", " ">>, <<"n", "o">>, <<"(">>,
      <<"z">> }

MenuInit ==
    /\ pc = "menu"
    /\ op = "none"
    /\ args = <<>>
    /\ ret = None
    /\ requests = <<>>
    /\ console = <<>>
    /\ MenuIdle

\* the record of one step of the menu run
Did(name, a, value, sent, printed) ==
    /\ op' = name
    /\ args' = a
    /\ ret' = value
    /\ requests' = sent
    /\ console' = printed

\* choose_launch(ls) is entered: it returns at once on an empty list
EnterChoose(ls) ==
    /\ pc' = IF ls = <<>> THEN "menu" ELSE "choose_prompt"
    /\ launches' = ls

\* choice "0"
MenuExit ==
    /\ pc = "menu"
    /\ pc' = "exited"
    /\ Did("main_menu", [choice |-> "0"], None, <<>>,
           <<[kind |-> "message", text |-> "Goodbye!"]>>)
    /\ UNCHANGED <<past_cache, upcoming_cache, past_loaded, launches>>

\* choice "1"
MenuUpcoming ==
    /\ pc = "menu"
    /\ \E o \in MenuUpcomingOutcomes, ro \in MenuRocketOutcomes, po \in MenuPadOutcomes :
         LET g == get_upcoming_launches(o)
             t == show_launch_table("Upcoming launches", g.value, ro, po)
         IN  /\ upcoming_cache' = g.value
             /\ EnterChoose(g.value)
             /\ Did("main_menu", [choice |-> "1"], None, g.sent \o t.sent,
                    g.printed \o t.printed)
    /\ UNCHANGED <<past_cache, past_loaded>>

\* choice "2"
MenuRecent ==
    /\ pc = "menu"
    /\ \E o \in MenuPastOutcomes, ro \in MenuRocketOutcomes, po \in MenuPadOutcomes :
         LET g == get_past_launches(o, BrowseLimit)
             t == show_launch_table("Recent launches", g.value, ro, po)
         IN  /\ past_cache' = g.value
             /\ past_loaded' = Some([fetched |-> Fetched(o), limit |-> BrowseLimit])
             /\ EnterChoose(g.value)
             /\ Did("main_menu", [choice |-> "2"], None, g.sent \o t.sent,
                    g.printed \o t.printed)
    /\ UNCHANGED upcoming_cache

\* choice "3": search_launches(past_cache) up to its prompt
MenuSearch ==
    /\ pc = "menu"
    /\ \E o \in MenuPastOutcomes :
         LET load == past_cache = <<>>
             g == IF load THEN get_past_launches(o, SearchLimit)
                  ELSE [value |-> past_cache, sent |-> <<>>, printed |-> <<>>]
         IN  /\ past_cache' = g.value
             /\ past_loaded' = IF load
                               THEN Some([fetched |-> Fetched(o), limit |-> SearchLimit])
                               ELSE past_loaded
             /\ IF g.value = <<>>
                THEN /\ pc' = "menu"
                     /\ launches' = <<>>
                     /\ Did("main_menu", [choice |-> "3"], None, g.sent,
                            g.printed \o <<[kind |-> "message",
                                            text |-> "No launches loaded yet."]>>)
                ELSE /\ pc' = "search_prompt"
                     /\ launches' = g.value
                     /\ Did("main_menu", [choice |-> "3"], None, g.sent, g.printed)
    /\ UNCHANGED upcoming_cache

\* choice "4"
MenuRefresh ==
    /\ pc = "menu"
    /\ \E o \in MenuPastOutcomes, u \in MenuUpcomingOutcomes :
         LET g == get_past_launches(o, SearchLimit)
             h == get_upcoming_launches(u)
         IN  /\ past_cache' = g.value
             /\ past_loaded' = Some([fetched |-> Fetched(o), limit |-> SearchLimit])
             /\ upcoming_cache' = h.value
             /\ Did("main_menu", [choice |-> "4"], None, g.sent \o h.sent,
                    g.printed \o h.printed)
    /\ pc' = "menu"
    /\ UNCHANGED launches

\* search_launches from its prompt on
SearchQuery ==
    /\ pc = "search_prompt"
    /\ \E typed \in Queries, ro \in MenuRocketOutcomes, po \in MenuPadOutcomes :
         LET s == search_matches(launches, typed)
             a == [launches |-> launches, typed |-> typed]
             t == show_launch_table([text |-> "Search results for", query |-> s.query],
                                    s.matches, ro, po)
         IN  IF ~s.filtered
             THEN /\ pc' = "menu"
                  /\ launches' = <<>>
                  /\ Did("search_launches", a, None, <<>>, <<>>)
             ELSE IF s.matches = <<>>
             THEN /\ pc' = "menu"
                  /\ launches' = <<>>
                  /\ Did("search_launches", a, None, <<>>,
                         <<[kind |-> "message", text |-> "No launches found matching",
                            query |-> s.query]>>)
             ELSE /\ EnterChoose(s.matches)
                  /\ Did("search_launches", a, None, t.sent, t.printed)
    /\ UNCHANGED <<past_cache, upcoming_cache, past_loaded>>

\* choose_launch at its prompt, and what its three callers do with a selection
ChooseAnswer ==
    /\ pc = "choose_prompt"
    /\ \E choice \in Choices, ro \in MenuRocketOutcomes, po \in MenuPadOutcomes :
         LET c == choose_launch_prompt(launches, choice)
             a == [launches |-> launches, choice |-> choice]
         IN  CASE c.next = "prompt" ->
                    /\ pc' = "choose_prompt"
                    /\ launches' = launches
                    /\ Did("choose_launch", a, None, <<>>, c.printed)
               [] c.next = "raise" ->
                    /\ pc' = "crashed"
                    /\ launches' = launches
                    /\ Did("choose_launch", a, None, <<>>, c.printed)
               [] c.next = "return" /\ c.value = None ->
                    /\ pc' = "menu"
                    /\ launches' = <<>>
                    /\ Did("choose_launch", a, c.value, <<>>, c.printed)
               [] c.next = "return" /\ c.value # None ->
                    LET d == show_launch_details(c.value[1], ro, po)
                    IN  /\ pc' = "menu"
                        /\ launches' = <<>>
                        /\ Did("choose_launch", a, c.value, d.sent, d.printed)
    /\ UNCHANGED <<past_cache, upcoming_cache, past_loaded>>

MenuNext ==
    \/ MenuExit
    \/ MenuUpcoming
    \/ MenuRecent
    \/ MenuSearch
    \/ MenuRefresh
    \/ SearchQuery
    \/ ChooseAnswer

MenuSpec == MenuInit /\ [][MenuNext]_vars

(***************************************************************************)
(* Properties.                                                             *)
(***************************************************************************)
Range(f) == { f[x] : x \in DOMAIN f }

\* position of x in the list l of distinct elements
IndexOf(l, x) == CHOOSE i \in DOMAIN l : l[i] = x

Loaders == {"load_rocket_map", "load_launchpad_map", "get_upcoming_launches",
            "get_past_launches"}

\* C1: get_past_launches(N) with N >= 0 returns min(N, fetched) records, each a
\* distinct fetched record, ordered descending by timestamp key, and no record left
\* out has a key greater than a returned one.
C1_PastKeepsMostRecent ==
    (op = "get_past_launches" /\ args.limit >= 0) =>
        LET f == Fetched(args.outcome)
        IN  /\ Len(ret) <= args.limit
            /\ Len(ret) = Min(args.limit, Len(f))
            /\ Range(ret) \subseteq Range(f)
            /\ \A i, j \in DOMAIN ret : i # j => ret[i] # ret[j]
            /\ \A i, j \in DOMAIN ret :
                 i < j => StrLeq(DateKey(ret[j]), DateKey(ret[i]))
            /\ \A x \in Range(f) \ Range(ret) :
                 \A i \in DOMAIN ret : StrLeq(DateKey(x), DateKey(ret[i]))

\* a load that had to sort and to truncate
C1_Witness ==
    /\ op = "get_past_launches"
    /\ args.limit = 2
    /\ Len(Fetched(args.outcome)) = 3
    /\ Len(ret) = 2
    /\ ret # SubSeq(Fetched(args.outcome), 1, 2)
    /\ StrLt(DateKey(ret[2]), DateKey(ret[1]))

\* C2: the keys of the mapping a reference loader returns are exactly the non-empty
\* ids of the fetched collection.
C2_KeysAreTheIds ==
    op \in {"load_rocket_map", "load_launchpad_map"} =>
        DOMAIN ret = { Get(e, "id") : e \in { x \in Range(Fetched(args.outcome)) :
                                               Truthy(Get(x, "id")) } }

Fallbacks == {UnknownRocket, UnknownPad, Unknown}

\* the reference is absent or the id of no entry of the collection
Unresolved(ref, collection) ==
    ref = None \/ \A e \in Range(collection) : Get(e, "id") # ref

\* C3: a rocket or launchpad reference that is absent or resolves to no entry is
\* rendered as one of the fallback strings, in the table and in the details.
C3_UnresolvedFallsBack ==
    /\ op = "show_launch_table" =>
         \A n \in DOMAIN console : console[n].kind = "table" =>
           \A i \in DOMAIN console[n].rows :
             LET launch == args.launches[i]
                 row == console[n].rows[i]
             IN  /\ Unresolved(Get(launch, "rocket"), Fetched(args.rockets))
                      => row.rocket_name \in Fallbacks
                 /\ Unresolved(Get(launch, "launchpad"), Fetched(args.pads))
                      => row.pad_name \in Fallbacks
    /\ op = "show_launch_details" =>
         \A n \in DOMAIN console : console[n].kind = "details" =>
             /\ Unresolved(Get(args.launch, "rocket"), Fetched(args.rockets))
                  => console[n].rocket_name \in Fallbacks
             /\ Unresolved(Get(args.launch, "launchpad"), Fetched(args.pads))
                  => console[n].pad_name \in Fallbacks

\* C4: a failed fetch makes fetch_json return None, reported once, and makes each
\* loader return the empty mapping or list; every call sends exactly one request.
C4_FailedFetchIsEmpty ==
    /\ op \in Loaders \cup {"fetch_json"} => Len(requests) = 1
    /\ (op = "fetch_json" /\ args.outcome.status # "ok") =>
         /\ ret = None
         /\ console = <<[kind |-> "error", path |-> args.path]>>
    /\ (op \in Loaders /\ args.outcome.status # "ok") =>
         /\ ret = <<>>
         /\ Len(console) = 1
         /\ console[1].kind = "error"

\* a loader that met a non-2xx answer carrying a body
C4_Witness ==
    /\ op = "get_past_launches"
    /\ args.outcome.status = "http_error"
    /\ args.outcome.body # <<>>
    /\ args.limit > 0
    /\ ret = <<>>
    /\ requests = <<"/launches/past">>

PresentPart(p, k) == k \in DOMAIN p /\ p[k] # EmptyStr

\* the display string the pad p is to get
PadExpected(p) ==
    LET name == IF PresentPart(p, "name") THEN p.name ELSE UnknownPad
    IN  CASE ~PresentPart(p, "locality") /\ ~PresentPart(p, "region") -> name
          [] PresentPart(p, "locality") /\ ~PresentPart(p, "region") ->
               name \o <<" ", "(">> \o p.locality \o <<")">>
          [] ~PresentPart(p, "locality") /\ PresentPart(p, "region") ->
               name \o <<" ", "(">> \o p.region \o <<")">>
          [] OTHER ->
               name \o <<" ", "(">> \o p.locality \o <<",", " ">> \o p.region \o <<")">>

\* C5: every launchpad entry (the last one of its id) is displayed as its name,
\* followed by the non-empty ones of locality and region in parentheses, and by
\* nothing when both are empty.
C5_PadDisplayFormat ==
    op = "load_launchpad_map" =>
        LET pads == Fetched(args.outcome)
        IN  \A i \in DOMAIN pads :
              (\A j \in DOMAIN pads : j > i => Get(pads[j], "id") # Get(pads[i], "id"))
                => /\ Get(pads[i], "id") \in DOMAIN ret
                   /\ ret[Get(pads[i], "id")] = PadExpected(pads[i])

\* a pad with a region and no locality, and a pad with neither
C5_Witness ==
    /\ op = "load_launchpad_map"
    /\ <<"V", " ", "(", "F", ")">> \in Range(ret)
    /\ <<"B">> \in Range(ret)

\* C8: get_upcoming_launches returns the fetched records, all of them, ascending by
\* timestamp key, the ones without a timestamp first, equal keys in fetched order.
C8_UpcomingStableAscending ==
    op = "get_upcoming_launches" =>
        LET f == Fetched(args.outcome)
        IN  /\ Len(ret) = Len(f)
            /\ Range(ret) = Range(f)
            /\ \A i, j \in DOMAIN ret :
                 i < j => /\ StrLeq(DateKey(ret[i]), DateKey(ret[j]))
                          /\ "date_utc" \notin DOMAIN ret[j]
                               => ~Truthy(Get(ret[i], "date_utc"))
                          /\ DateKey(ret[i]) = DateKey(ret[j])
                               => IndexOf(f, ret[i]) < IndexOf(f, ret[j])

\* a load that reordered, with two records of one key and one without a timestamp
C8_Witness ==
    /\ op = "get_upcoming_launches"
    /\ Len(ret) = 3
    /\ ret # Fetched(args.outcome)
    /\ "date_utc" \notin DOMAIN ret[1]
    /\ DateKey(ret[2]) = DateKey(ret[3])
    /\ DateKey(ret[2]) # EmptyStr

\* C9 as stated: ascending sort, reversal, descending sort give the ascending order.
C9_RoundTripIsAscending ==
    op = "sort_round_trip" => ret.desc = ret.asc

\* C9 as amended: the descending sort leaves the reversed list as it is, the exact
\* reverse of the ascending order.
C9_RoundTripIsReversed ==
    op = "sort_round_trip" =>
        /\ ret.desc = ret.rev
        /\ \A i \in DOMAIN ret.asc : ret.desc[i] = ret.asc[Len(ret.asc) + 1 - i]
        /\ Len(ret.desc) = Len(ret.asc)

\* a round trip over three records, two of them of one key
C9_Witness ==
    /\ op = "sort_round_trip"
    /\ Len(ret.asc) = 3
    /\ DateKey(ret.asc[1]) = DateKey(ret.asc[2])
    /\ DateKey(ret.asc[2]) # DateKey(ret.asc[3])
    /\ ret.asc # args.launches

SearchName(l) == IF "name" \in DOMAIN l THEN l.name ELSE EmptyStr

\* q occurs in name, letter case aside
OccursIn(q, name) ==
    \E off \in 0..(Len(name) - Len(q)) :
        \A k \in 1..Len(q) : LowerChar(name[off + k]) = LowerChar(q[k])

Tables == { n \in DOMAIN console : console[n].kind = "table" }

\* C6: an empty or blank query filters nothing and presents nothing; any other query
\* presents exactly the launches whose name holds it, letter case aside, in their
\* order, a launch without a name never among them; no empty result is presented.
C6_SearchMatchesByName ==
    op = "search_launches" =>
        LET q == Strip(args.typed)
            Hit(l) == OccursIn(q, SearchName(l))
            expected == SelectSeq(args.launches, Hit)
        IN  /\ \A n \in Tables : console[n].rows # <<>>
            /\ IF q = EmptyStr
               THEN pc = "menu" /\ console = <<>> /\ requests = <<>>
               ELSE IF expected = <<>>
               THEN pc = "menu" /\ Tables = {}
               ELSE /\ pc = "choose_prompt"
                    /\ launches = expected
                    /\ Tables # {}
                    /\ \A n \in Tables :
                         /\ Len(console[n].rows) = Len(expected)
                         /\ \A i \in DOMAIN expected :
                              console[n].rows[i].name = expected[i].name

\* a search for "no" among launches one of which has no name
C6_Witness ==
    /\ op = "search_launches"
    /\ args.typed = <<"n", "o">>
    /\ \E l \in Range(args.launches) : "name" \notin DOMAIN l
    /\ Len(args.launches) > 1
    /\ Len(launches) = 1
    /\ pc = "choose_prompt"

AllIn(s, S) == \A i \in DOMAIN s : s[i] \in S

\* C7: choose_launch never crashes; a blank answer gives no selection, a number
\* within 1..len(launches) gives that launch, any other answer is reported and the
\* prompt is asked again over the same list.
C7_ChooseNeverCrashes ==
    /\ pc # "crashed"
    /\ op = "choose_launch" =>
         LET c == args.choice
             ls == args.launches
         IN  IF AllIn(c, Whitespace)
             THEN ret = None /\ pc = "menu"
             ELSE IF AllIn(c, DecimalDigits) /\ IntOf(c) \in 1..Len(ls)
             THEN ret = Some(ls[IntOf(c)])
             ELSE /\ ret = None
                  /\ console # <<>>
                  /\ pc = "choose_prompt"
                  /\ launches = ls

\* C10: what option 3 searches is the past-launch load with limit 50 of the
\* collection the cache was fetched from.
C10_SearchScopeIsFifty ==
    pc = "search_prompt" =>
        /\ past_loaded # None
        /\ launches = SliceTo(SortByDateReverse(past_loaded[1].fetched), SearchLimit)

====
